---- MODULE Spec2Model ----
(***************************************************************************)
(* A model of GoWebSocket: the handshake responder (server/server.go,      *)
(* wsHandler), the frame encoder (sendTextMessage) and the frame decoder   *)
(* of the initiator (readTextMessage).  Bytes are integers 0..255, byte    *)
(* strings are sequences of bytes.                                         *)
(***************************************************************************)
EXTENDS Integers, Sequences, FiniteSets, TLC

(***************************************************************************)
(* Bounds of the model.                                                    *)
(***************************************************************************)
\* longest message whose bytes are enumerated one by one
MaxShort == 2
\* most bytes a failing underlying writer accepts before it reports its error
MaxPartial == 1
\* most bytes that follow a frame on a peer's stream
MaxExtra == 1
\* last position at which the transport may cut a stream into two reads
MaxSplit == 3

(***************************************************************************)
(* Byte and word arithmetic.                                               *)
(***************************************************************************)
Min(a, b) == IF a < b THEN a ELSE b

Pow2(n) == 2 ^ n

\* the first n elements of s, and s without them
Take(s, n) == SubSeq(s, 1, Min(n, Len(s)))

Drop(s, n) == SubSeq(s, Min(n, Len(s)) + 1, Len(s))

\* the 16-bit number whose bit i is bit[i]
Bits16(bit) ==
    bit[0] + 2 * bit[1] + 4 * bit[2] + 8 * bit[3] + 16 * bit[4] + 32 * bit[5]
      + 64 * bit[6] + 128 * bit[7] + 256 * bit[8] + 512 * bit[9] + 1024 * bit[10]
      + 2048 * bit[11] + 4096 * bit[12] + 8192 * bit[13] + 16384 * bit[14]
      + 32768 * bit[15]

\* bit i of the number a
BitAt(a, i) == (a \div Pow2(i)) % 2

\* bitwise exclusive or of four 16-bit numbers
Xor4(a, b, c, d) ==
    Bits16([i \in 0..15 |-> (BitAt(a, i) + BitAt(b, i) + BitAt(c, i) + BitAt(d, i)) % 2])

\* A 32-bit word is a pair <<high 16 bits, low 16 bits>>; the exclusive or of four words.
WXor4(p, q, r, s) ==
    <<Xor4(p[1], q[1], r[1], s[1]), Xor4(p[2], q[2], r[2], s[2])>>

RECURSIVE HalfSum(_, _, _)
\* the sum of the k-th halves of the words ws[i..]
HalfSum(ws, i, k) == IF i > Len(ws) THEN 0 ELSE ws[i][k] + HalfSum(ws, i + 1, k)

\* the sum modulo 2^32 of the words of the sequence ws
WSum(ws) ==
    LET lo == HalfSum(ws, 1, 2)
    IN  <<(HalfSum(ws, 1, 1) + (lo \div 65536)) % 65536, lo % 65536>>

\* the word u rotated left by k bits, 0 < k < 16
RotlSmall(u, k) ==
    <<((u[1] * Pow2(k)) % 65536) + (u[2] \div Pow2(16 - k)),
      ((u[2] * Pow2(k)) % 65536) + (u[1] \div Pow2(16 - k))>>

\* the word u rotated left by k bits, 0 < k < 32, k # 16
Rotl(u, k) == IF k < 16 THEN RotlSmall(u, k) ELSE RotlSmall(<<u[2], u[1]>>, k - 16)

\* the round function of SHA-1 for round t on 16-bit numbers b, c, d
Sha1FBits(t, b, c, d) ==
    Bits16([i \in 0..15 |->
             LET x == BitAt(b, i)
                 y == BitAt(c, i)
                 z == BitAt(d, i)
             IN  IF t < 20 THEN (IF x = 1 THEN y ELSE z)
                 ELSE IF t >= 40 /\ t < 60 THEN (IF x + y + z >= 2 THEN 1 ELSE 0)
                 ELSE (x + y + z) % 2])

Sha1F(t, b, c, d) ==
    <<Sha1FBits(t, b[1], c[1], d[1]), Sha1FBits(t, b[2], c[2], d[2])>>

\* 0x5A827999, 0x6ED9EBA1, 0x8F1BBCDC, 0xCA62C1D6
Sha1K(t) ==
    IF t < 20 THEN <<23170, 31129>>
    ELSE IF t < 40 THEN <<28377, 60321>>
    ELSE IF t < 60 THEN <<36635, 48348>>
    ELSE <<51810, 49622>>

\* 0x67452301, 0xEFCDAB89, 0x98BADCFE, 0x10325476, 0xC3D2E1F0
Sha1Init == <<<<26437, 8961>>, <<61389, 43913>>, <<39098, 56574>>, <<4146, 21622>>, <<50130, 57840>>>>

\* the message followed by 0x80, zero bytes up to 56 mod 64 and the 64-bit bit length
Sha1Pad(m) ==
    LET l == Len(m)
        z == (119 - (l % 64)) % 64
        bits == 8 * l
    IN  m \o <<128>> \o [i \in 1..z |-> 0]
          \o [i \in 1..8 |-> IF i < 5 THEN 0 ELSE (bits \div Pow2(8 * (8 - i))) % 256]

RECURSIVE Sha1Extend(_, _, _)
\* the message schedule w grown by the words t..last
Sha1Extend(w, t, last) ==
    IF t > last THEN w
    ELSE LET w2 == Append(w, Rotl(WXor4(w[t - 3], w[t - 8], w[t - 14], w[t - 16]), 1))
         IN  IF Len(w2) = t THEN Sha1Extend(w2, t + 1, last) ELSE w2

\* the 80 words of the message schedule, grown from the 16 words of a block
Sha1Schedule(w16) ==
    LET w32 == Sha1Extend(w16, 17, 32)
    IN  IF Len(w32) # 32 THEN w32
        ELSE LET w48 == Sha1Extend(w32, 33, 48)
             IN  IF Len(w48) # 48 THEN w48
                 ELSE LET w64 == Sha1Extend(w48, 49, 64)
                      IN  IF Len(w64) # 64 THEN w64 ELSE Sha1Extend(w64, 65, 80)

RECURSIVE Sha1Steps(_, _, _, _)
\* rounds t..last-1 on the working state h = <<a, b, c, d, e>>
Sha1Steps(h, w, t, last) ==
    IF t = last THEN h
    ELSE LET tmp == WSum(<<Rotl(h[1], 5), Sha1F(t, h[2], h[3], h[4]), h[5], Sha1K(t), w[t + 1]>>)
             h2 == <<tmp, h[1], Rotl(h[2], 30), h[3], h[4]>>
         IN  IF Len(h2) = 5 THEN Sha1Steps(h2, w, t + 1, last) ELSE h2

\* the 80 rounds on the working state h
Sha1Rounds(h, w) ==
    LET h20 == Sha1Steps(h, w, 0, 20)
    IN  IF Len(h20) # 5 THEN h20
        ELSE LET h40 == Sha1Steps(h20, w, 20, 40)
             IN  IF Len(h40) # 5 THEN h40
                 ELSE LET h60 == Sha1Steps(h40, w, 40, 60)
                      IN  IF Len(h60) # 5 THEN h60 ELSE Sha1Steps(h60, w, 60, 80)

RECURSIVE Sha1Blocks(_, _, _)
\* the hash state after blocks i.. of the padded message p
Sha1Blocks(h, p, i) ==
    IF 64 * i >= Len(p) THEN h
    ELSE LET w16 == [j \in 1..16 |->
                        <<p[64 * i + 4 * j - 3] * 256 + p[64 * i + 4 * j - 2],
                          p[64 * i + 4 * j - 1] * 256 + p[64 * i + 4 * j]>>]
             w == Sha1Schedule(w16)
             r == Sha1Rounds(h, w)
         IN  Sha1Blocks([j \in 1..5 |-> WSum(<<h[j], r[j]>>)], p, i + 1)

\* crypto/sha1: the 20 bytes of the digest of m
Sha1(m) ==
    LET h == Sha1Blocks(Sha1Init, Sha1Pad(m), 0)
    IN  [i \in 1..20 |->
           LET wd == h[((i - 1) \div 4) + 1]
               k == (i - 1) % 4
           IN  IF k = 0 THEN wd[1] \div 256
               ELSE IF k = 1 THEN wd[1] % 256
               ELSE IF k = 2 THEN wd[2] \div 256
               ELSE wd[2] % 256]

\* the ASCII code of the base64 digit of a 6-bit value (alphabet A-Z a-z 0-9 + /)
B64Char(v) ==
    IF v < 26 THEN 65 + v
    ELSE IF v < 52 THEN 97 + (v - 26)
    ELSE IF v < 62 THEN 48 + (v - 52)
    ELSE IF v = 62 THEN 43
    ELSE 47

RECURSIVE Base64(_)
\* base64.StdEncoding.EncodeToString: 3 bytes to 4 digits, '=' padding
Base64(s) ==
    IF Len(s) = 0 THEN <<>>
    ELSE IF Len(s) = 1 THEN
        <<B64Char(s[1] \div 4), B64Char((s[1] % 4) * 16), 61, 61>>
    ELSE IF Len(s) = 2 THEN
        <<B64Char(s[1] \div 4), B64Char((s[1] % 4) * 16 + (s[2] \div 16)),
          B64Char((s[2] % 16) * 4), 61>>
    ELSE
        <<B64Char(s[1] \div 4), B64Char((s[1] % 4) * 16 + (s[2] \div 16)),
          B64Char((s[2] % 16) * 4 + (s[3] \div 64)), B64Char(s[3] % 64)>>
          \o Base64(SubSeq(s, 4, Len(s)))

\* "258EAFA5-E914-47DA-95CA-C5AB0DC85B11"
magicString ==
    <<50, 53, 56, 69, 65, 70, 65, 53, 45, 69, 57, 49, 52, 45, 52, 55, 68, 65,
      45, 57, 53, 67, 65, 45, 67, 53, 65, 66, 48, 68, 67, 56, 53, 66, 49, 49>>

\* computeAcceptKey hashing the constant before the key
computeAcceptKey_MagicFirst(secWebSocketKey) ==
    Base64(Sha1(magicString \o secWebSocketKey))

computeAcceptKey(secWebSocketKey) == Base64(Sha1(secWebSocketKey \o magicString))

\* "dGhlIHNhbXBsZSBub25jZQ=="
SampleKey ==
    <<100, 71, 104, 108, 73, 72, 78, 104, 98, 88, 66, 115, 90, 83, 66, 117,
      98, 50, 53, 106, 90, 81, 61, 61>>

\* "s3pPLMBiTxaQ9kYGzzhZRbK+xOo=", the accept value the test expects for SampleKey
SampleAccept ==
    <<115, 51, 112, 80, 76, 77, 66, 105, 84, 120, 97, 81, 57, 107, 89, 71,
      122, 122, 104, 90, 82, 98, 75, 43, 120, 79, 111, 61>>

\* "x3JJHMbDL1EzLkh9GBhXDw==", a second key
OtherKey ==
    <<120, 51, 74, 74, 72, 77, 98, 68, 76, 49, 69, 122, 76, 107, 104, 57,
      71, 66, 104, 88, 68, 119, 61, 61>>

(***************************************************************************)
(* State.                                                                  *)
(***************************************************************************)
VARIABLES
    pc,                  \* position of wsHandler in its body
    req,                 \* the request: values of r.Header.Get for Origin, Upgrade, Sec-WebSocket-Key
    transport,           \* what the ResponseWriter offers: "none" (no Hijacker), "fail", "ok"
    secWebSocketAccept,  \* the local of wsHandler, <<>> until computed
    resp,                \* the ResponseWriter: header map, status (0: not written), body lines
    hijacked,            \* the connection has been taken over
    connClosed,          \* conn.Close() has run
    rw,                  \* the bufio.Writer and the writer under it
    phase,               \* position of the codec harness
    message,             \* the argument of sendTextMessage
    sendErr,             \* the error sendTextMessage returned
    rd,                  \* the bufio.Reader and the stream under it
    fromSend,            \* the reader's stream is what sendTextMessage wrote
    result,              \* what readTextMessage returned
    cpc,                 \* position of the initiator's main in its body
    conn,                \* the initiator's connection: dialled, Close() has run, lines written
    secWebSocketKey,     \* the local of main, <<>> until generated
    status,              \* the status line main read, <<>> until read
    line,                \* the last header line main read
    fatal,               \* the message of the log.Fatal that ended main, "none" otherwise
    peer,                \* the other end: chunks it has still to send, whether it is open
    conns,               \* the connections the server serves at once, each with its own wsHandler
    logged               \* the lines the handlers have written to the process-wide logger

vars == <<pc, req, transport, secWebSocketAccept, resp, hijacked, connClosed, rw,
          phase, message, sendErr, rd, fromSend, result,
          cpc, conn, secWebSocketKey, status, line, fatal, peer, conns, logged>>

serverVars == <<conns, logged>>

clientVars == <<cpc, conn, secWebSocketKey, status, line, fatal, peer>>

handlerVars == <<pc, req, transport, secWebSocketAccept, resp, hijacked, connClosed>>

codecVars == <<phase, message, sendErr, rd, fromSend, result>>

(***************************************************************************)
(* The ResponseWriter (net/http) as wsHandler uses it.                     *)
(***************************************************************************)
NoHeader == [k \in {} |-> ""]

NewResponse == [header |-> NoHeader, status |-> 0, body |-> <<>>]

\* Header.Set
HeaderSet(h, k, v) == [n \in (DOMAIN h) \cup {k} |-> IF n = k THEN v ELSE h[n]]

\* ResponseWriter.WriteHeader, as the HTTP/1 server's response and
\* httptest.ResponseRecorder do it: only the first call sets the status
WriteHeader(r, code) == IF r.status = 0 THEN [r EXCEPT !.status = code] ELSE r

\* http.Error: sets the two headers, WriteHeader(code), Fprintln(w, msg);
\* the body is kept as the sequence of lines printed
httpError(r, msg, code) ==
    LET h1 == HeaderSet(r.header, "Content-Type", "text/plain; charset=utf-8")
        h2 == HeaderSet(h1, "X-Content-Type-Options", "nosniff")
        r2 == WriteHeader([r EXCEPT !.header = h2], code)
    IN  [r2 EXCEPT !.body = Append(@, msg)]

(***************************************************************************)
(* bufio.Writer over an underlying writer.  out is what the underlying     *)
(* writer has received; when fail is set its Write accepts partial bytes   *)
(* and returns an error.                                                   *)
(***************************************************************************)
NewWriter(fail, partial) ==
    [buf |-> <<>>, err |-> "nil", out |-> <<>>, fail |-> fail, partial |-> partial]

\* bufio.Writer.Write of p, which fits the buffer
BufioWrite(w, p) ==
    IF w.err # "nil" THEN [err |-> w.err, w |-> w]
    ELSE [err |-> "nil", w |-> [w EXCEPT !.buf = @ \o p]]

\* bufio.Writer.Flush
BufioFlush(w) ==
    IF w.err # "nil" THEN [err |-> w.err, w |-> w]
    ELSE IF w.buf = <<>> THEN [err |-> "nil", w |-> w]
    ELSE LET n == IF w.fail THEN Min(w.partial, Len(w.buf)) ELSE Len(w.buf)
             e == IF w.fail THEN "write error" ELSE "nil"
         IN  [err |-> e,
              w |-> [w EXCEPT !.out = @ \o Take(w.buf, n), !.buf = Drop(@, n), !.err = e]]

(***************************************************************************)
(* sendTextMessage                                                         *)
(***************************************************************************)
\* sendTextMessage with the mask bit set in the length byte
sendTextMessage_MaskBit(w, msg) ==
    LET payloadLen == Len(msg)
    IN  IF payloadLen > 125 THEN [err |-> "Message too long", w |-> w]
        ELSE LET frame == <<129>> \o <<(128 + payloadLen) % 256>> \o msg
                 wr == BufioWrite(w, frame)
             IN  IF wr.err # "nil" THEN wr ELSE BufioFlush(wr.w)

\* sendTextMessage refusing only messages longer than 126 bytes
sendTextMessage_OffByOne(w, msg) ==
    LET payloadLen == Len(msg)
    IN  IF payloadLen > 126 THEN [err |-> "Message too long", w |-> w]
        ELSE LET frame == <<129>> \o <<payloadLen % 256>> \o msg
                 wr == BufioWrite(w, frame)
             IN  IF wr.err # "nil" THEN wr ELSE BufioFlush(wr.w)

sendTextMessage(w, msg) ==
    LET payloadLen == Len(msg)
    IN  IF payloadLen > 125 THEN [err |-> "Message too long", w |-> w]
        ELSE LET frame == <<129>> \o <<payloadLen % 256>> \o msg
                 wr == BufioWrite(w, frame)
             IN  IF wr.err # "nil" THEN wr ELSE BufioFlush(wr.w)

(***************************************************************************)
(* wsHandler, one action per step of its body.                             *)
(***************************************************************************)
allowedOrigin == "http://localhost:8080"

\* "Hello World"
HelloWorld == <<72, 101, 108, 108, 111, 32, 87, 111, 114, 108, 100>>

Origins == {allowedOrigin, "http://example.com", "http://localhost:8080/", ""}

Upgrades == {"websocket", "WebSocket", "h2c", ""}

Keys == {<<>>, SampleKey, OtherKey}

Transports == {"none", "fail", "ok"}

\* the server hands a request to wsHandler
Serve(o, u, k, t, f, n) ==
    /\ pc = "idle"
    /\ req' = [origin |-> o, upgrade |-> u, key |-> k]
    /\ transport' = t
    /\ rw' = NewWriter(f, n)
    /\ pc' = "origin"
    /\ UNCHANGED <<secWebSocketAccept, resp, hijacked, connClosed>>
    /\ UNCHANGED codecVars
    /\ UNCHANGED clientVars
    /\ UNCHANGED serverVars

\* the origin check without its return
CheckOrigin_NoReturn ==
    /\ pc = "origin"
    /\ IF req.origin # allowedOrigin
       THEN resp' = httpError(resp, "Origin not allowed", 403)
       ELSE UNCHANGED resp
    /\ pc' = "upgrade"
    /\ UNCHANGED <<req, transport, secWebSocketAccept, hijacked, connClosed, rw>>
    /\ UNCHANGED codecVars
    /\ UNCHANGED clientVars
    /\ UNCHANGED serverVars

CheckOrigin ==
    /\ pc = "origin"
    /\ IF req.origin # allowedOrigin
       THEN /\ resp' = httpError(resp, "Origin not allowed", 403)
            /\ pc' = "done"
       ELSE /\ pc' = "upgrade"
            /\ UNCHANGED resp
    /\ UNCHANGED <<req, transport, secWebSocketAccept, hijacked, connClosed, rw>>
    /\ UNCHANGED codecVars
    /\ UNCHANGED clientVars
    /\ UNCHANGED serverVars

\* the upgrade check comparing without regard to case
CheckUpgrade_AnyCase ==
    /\ pc = "upgrade"
    /\ IF req.upgrade \notin {"websocket", "WebSocket"}
       THEN /\ resp' = httpError(resp, "Not a valid WebSocket handshake", 400)
            /\ pc' = "done"
       ELSE /\ pc' = "key"
            /\ UNCHANGED resp
    /\ UNCHANGED <<req, transport, secWebSocketAccept, hijacked, connClosed, rw>>
    /\ UNCHANGED codecVars
    /\ UNCHANGED clientVars
    /\ UNCHANGED serverVars

CheckUpgrade ==
    /\ pc = "upgrade"
    /\ IF req.upgrade # "websocket"
       THEN /\ resp' = httpError(resp, "Not a valid WebSocket handshake", 400)
            /\ pc' = "done"
       ELSE /\ pc' = "key"
            /\ UNCHANGED resp
    /\ UNCHANGED <<req, transport, secWebSocketAccept, hijacked, connClosed, rw>>
    /\ UNCHANGED codecVars
    /\ UNCHANGED clientVars
    /\ UNCHANGED serverVars

\* the key check refusing also a Sec-WebSocket-Version other than 13
CheckKey_Version ==
    /\ pc = "key"
    /\ IF req.key = <<>>
       THEN /\ resp' = httpError(resp, "Missing Sec-WebSocket-Key", 400)
            /\ pc' = "done"
       ELSE IF req.version # "13"
       THEN /\ resp' = httpError(resp, "Unsupported Sec-WebSocket-Version", 400)
            /\ pc' = "done"
       ELSE /\ pc' = "accept"
            /\ UNCHANGED resp
    /\ UNCHANGED <<req, transport, secWebSocketAccept, hijacked, connClosed, rw>>
    /\ UNCHANGED codecVars
    /\ UNCHANGED clientVars
    /\ UNCHANGED serverVars

CheckKey ==
    /\ pc = "key"
    /\ IF req.key = <<>>
       THEN /\ resp' = httpError(resp, "Missing Sec-WebSocket-Key", 400)
            /\ pc' = "done"
       ELSE /\ pc' = "accept"
            /\ UNCHANGED resp
    /\ UNCHANGED <<req, transport, secWebSocketAccept, hijacked, connClosed, rw>>
    /\ UNCHANGED codecVars
    /\ UNCHANGED clientVars
    /\ UNCHANGED serverVars

ComputeAccept ==
    /\ pc = "accept"
    /\ secWebSocketAccept' = computeAcceptKey(req.key)
    /\ pc' = "header"
    /\ UNCHANGED <<req, transport, resp, hijacked, connClosed, rw>>
    /\ UNCHANGED codecVars
    /\ UNCHANGED clientVars
    /\ UNCHANGED serverVars

SetHeaders ==
    /\ pc = "header"
    /\ resp' = [resp EXCEPT !.header =
                  HeaderSet(HeaderSet(HeaderSet(@, "Upgrade", "websocket"),
                                      "Connection", "Upgrade"),
                            "Sec-WebSocket-Accept", secWebSocketAccept)]
    /\ pc' = "status"
    /\ UNCHANGED <<req, transport, secWebSocketAccept, hijacked, connClosed, rw>>
    /\ UNCHANGED codecVars
    /\ UNCHANGED clientVars
    /\ UNCHANGED serverVars

SwitchingProtocols ==
    /\ pc = "status"
    /\ resp' = WriteHeader(resp, 101)
    /\ pc' = "hijack"
    /\ UNCHANGED <<req, transport, secWebSocketAccept, hijacked, connClosed, rw>>
    /\ UNCHANGED codecVars
    /\ UNCHANGED clientVars
    /\ UNCHANGED serverVars

Hijack ==
    /\ pc = "hijack"
    /\ IF transport = "none"
       THEN /\ resp' = httpError(resp, "Hijacking not supported", 500)
            /\ pc' = "done"
            /\ UNCHANGED hijacked
       ELSE IF transport = "fail"
       THEN /\ resp' = httpError(resp, "Could not hijack connection: error", 500)
            /\ pc' = "done"
            /\ UNCHANGED hijacked
       ELSE /\ hijacked' = TRUE
            /\ pc' = "send"
            /\ UNCHANGED resp
    /\ UNCHANGED <<req, transport, secWebSocketAccept, connClosed, rw>>
    /\ UNCHANGED codecVars
    /\ UNCHANGED clientVars
    /\ UNCHANGED serverVars

\* the send step writing the message twice
SendHello_Twice ==
    /\ pc = "send"
    /\ LET r == sendTextMessage(rw, HelloWorld)
       IN  rw' = sendTextMessage(r.w, HelloWorld).w
    /\ pc' = "close"
    /\ UNCHANGED <<req, transport, secWebSocketAccept, resp, hijacked, connClosed>>
    /\ UNCHANGED codecVars
    /\ UNCHANGED clientVars
    /\ UNCHANGED serverVars

SendHello ==
    /\ pc = "send"
    /\ LET r == sendTextMessage(rw, HelloWorld)
       IN  rw' = r.w
    /\ pc' = "close"
    /\ UNCHANGED <<req, transport, secWebSocketAccept, resp, hijacked, connClosed>>
    /\ UNCHANGED codecVars
    /\ UNCHANGED clientVars
    /\ UNCHANGED serverVars

\* the deferred conn.Close()
CloseConn ==
    /\ pc = "close"
    /\ connClosed' = TRUE
    /\ pc' = "done"
    /\ UNCHANGED <<req, transport, secWebSocketAccept, resp, hijacked, rw>>
    /\ UNCHANGED codecVars
    /\ UNCHANGED clientVars
    /\ UNCHANGED serverVars

NoRequest == [origin |-> "", upgrade |-> "", key |-> <<>>]

(***************************************************************************)
(* bufio.Reader over an underlying stream.  src is the sequence of chunks  *)
(* the stream's Read calls return, one chunk per call, then io.EOF; next   *)
(* is the chunk the next call returns; used counts the bytes handed out.   *)
(***************************************************************************)
NewReader(chunks) == [src |-> chunks, next |-> 1, buf |-> <<>>, used |-> 0]

\* bufio.Reader.Read into a slice of n bytes, n below the buffer size:
\* at most one Read of the stream, and only when nothing is buffered; it
\* returns what is buffered then, even when that is less than n bytes
BufioRead(r, n) ==
    IF n = 0 THEN [data |-> <<>>, err |-> "nil", rd |-> r]
    ELSE IF r.buf = <<>> /\ r.next > Len(r.src)
    THEN [data |-> <<>>, err |-> "EOF", rd |-> r]
    ELSE LET filled == IF r.buf = <<>>
                       THEN [r EXCEPT !.buf = r.src[r.next], !.next = @ + 1]
                       ELSE r
             d == Take(filled.buf, n)
         IN  [data |-> d, err |-> "nil",
              rd |-> [filled EXCEPT !.buf = Drop(@, n), !.used = @ + Len(d)]]

\* a slice made with n zero bytes after a Read that stored d at its front
Filled(d, n) == [i \in 1..n |-> IF i <= Len(d) THEN d[i] ELSE 0]

(***************************************************************************)
(* readTextMessage                                                         *)
(***************************************************************************)
\* readTextMessage taking the low 6 bits of the second byte as the length
readTextMessage_SixBits(r) ==
    LET h == BufioRead(r, 2)
    IN  IF h.err # "nil" THEN [text |-> <<>>, err |-> h.err, rd |-> h.rd]
        ELSE
        LET header == Filled(h.data, 2)
            fin == (header[1] \div 128) % 2 # 0
            opcode == header[1] % 16
            masked == (header[2] \div 128) % 2 # 0
            payloadLen == header[2] % 64
        IN  IF ~fin
            THEN [text |-> <<>>, err |-> "Continuation frames are not supported", rd |-> h.rd]
            ELSE IF opcode # 1
            THEN [text |-> <<>>, err |-> "Only text frames are supported", rd |-> h.rd]
            ELSE IF masked
            THEN [text |-> <<>>, err |-> "Server frames should not be masked", rd |-> h.rd]
            ELSE LET p == BufioRead(h.rd, payloadLen)
                 IN  IF p.err # "nil" THEN [text |-> <<>>, err |-> p.err, rd |-> p.rd]
                     ELSE [text |-> Filled(p.data, payloadLen), err |-> "nil", rd |-> p.rd]

readTextMessage(r) ==
    LET h == BufioRead(r, 2)
    IN  IF h.err # "nil" THEN [text |-> <<>>, err |-> h.err, rd |-> h.rd]
        ELSE
        LET header == Filled(h.data, 2)
            fin == (header[1] \div 128) % 2 # 0
            opcode == header[1] % 16
            masked == (header[2] \div 128) % 2 # 0
            payloadLen == header[2] % 128
        IN  IF ~fin
            THEN [text |-> <<>>, err |-> "Continuation frames are not supported", rd |-> h.rd]
            ELSE IF opcode # 1
            THEN [text |-> <<>>, err |-> "Only text frames are supported", rd |-> h.rd]
            ELSE IF masked
            THEN [text |-> <<>>, err |-> "Server frames should not be masked", rd |-> h.rd]
            ELSE LET p == BufioRead(h.rd, payloadLen)
                 IN  IF p.err # "nil" THEN [text |-> <<>>, err |-> p.err, rd |-> p.rd]
                     ELSE [text |-> Filled(p.data, payloadLen), err |-> "nil", rd |-> p.rd]

(***************************************************************************)
(* The codec on its own: a message is encoded into a writer, a stream is   *)
(* decoded from a reader.                                                  *)
(***************************************************************************)
Alphabet == {0, 65, 255}

\* n bytes that differ from their neighbours
Fill(n, seed) == [i \in 1..n |-> (seed + i) % 256]

Seeds == {0, 64}

LongLens == {124, 125, 126, 127, 200}

Messages ==
    UNION {[1..n -> Alphabet] : n \in 0..MaxShort}
      \cup {Fill(n, sd) : n \in LongLens, sd \in Seeds}
      \cup {HelloWorld}

\* the inputs of TestReadTextMessage
TestInputs ==
    {<<129, 5, 72, 101, 108, 108, 111>>, <<0, 5, 72, 101, 108, 108, 111>>,
     <<130, 5, 72, 101, 108, 108, 111>>, <<129, 128, 0, 0, 0, 0>>,
     <<129, 0>>, <<129, 126, 0, 126>>}

FirstBytes == {129, 1, 0, 130, 2, 137, 145}

SecondBytes == {0, 1, 2, 125, 126, 127, 128, 129, 254}

\* how many bytes may follow a header whose length field is n
TailLens(n) == {n + e : e \in 0..MaxExtra} \cup {0} \cup (IF n > 0 THEN {n - 1} ELSE {})

\* the byte streams a peer may send
PeerStreams ==
    {<<>>} \cup TestInputs \cup {<<b0>> : b0 \in FirstBytes}
      \cup UNION {UNION {{<<b0, b1>> \o Fill(k, sd) : k \in TailLens(b1 % 128), sd \in Seeds}
                           : b1 \in SecondBytes} : b0 \in FirstBytes}

RECURSIVE Flat(_)
\* the bytes of a sequence of chunks
Flat(cs) == IF Len(cs) = 0 THEN <<>> ELSE cs[1] \o Flat(Tail(cs))

\* the ways the transport hands the bytes s to Read calls: whole, or cut in two
Splits(s) ==
    IF Len(s) = 0 THEN {<<>>}
    ELSE {<<s>>} \cup {<<Take(s, i), Drop(s, i)>> :
                          i \in {j \in (1..MaxSplit) \cup {Len(s) - 1} : j >= 1 /\ j < Len(s)}}

SendTextMessage(m, f, n) ==
    /\ phase = "idle"
    /\ message' = m
    /\ LET r == sendTextMessage(NewWriter(f, n), m)
       IN  /\ rw' = r.w
           /\ sendErr' = r.err
    /\ phase' = "sent"
    /\ UNCHANGED <<rd, fromSend, result>>
    /\ UNCHANGED handlerVars
    /\ UNCHANGED serverVars
    /\ UNCHANGED clientVars

\* the bytes the writer received travel to a reader
Deliver(c) ==
    /\ phase = "sent"
    /\ rd' = NewReader(c)
    /\ fromSend' = TRUE
    /\ phase' = "ready"
    /\ UNCHANGED <<message, sendErr, result, rw>>
    /\ UNCHANGED handlerVars
    /\ UNCHANGED serverVars
    /\ UNCHANGED clientVars

\* a peer's bytes reach a reader
Inject(c) ==
    /\ phase = "idle"
    /\ rd' = NewReader(c)
    /\ phase' = "ready"
    /\ UNCHANGED <<message, sendErr, fromSend, result, rw>>
    /\ UNCHANGED handlerVars
    /\ UNCHANGED serverVars
    /\ UNCHANGED clientVars

ReadTextMessage ==
    /\ phase = "ready"
    /\ LET r == readTextMessage(rd)
       IN  /\ result' = [text |-> r.text, err |-> r.err]
           /\ rd' = r.rd
    /\ phase' = "read"
    /\ UNCHANGED <<message, sendErr, fromSend, rw>>
    /\ UNCHANGED handlerVars
    /\ UNCHANGED serverVars
    /\ UNCHANGED clientVars

NoReader == NewReader(<<>>)

NoResult == [text |-> <<>>, err |-> "none"]

(***************************************************************************)
(* The initiator: main of the client, one action per step of its body.     *)
(* The reader rd is bufio.NewReader(conn); the chunks of rd.src are what   *)
(* conn.Read returns, and a Read finding none waits while the peer is open *)
(* and gets io.EOF once it has closed.                                     *)
(***************************************************************************)
\* "\r\n"
CRLF ==
    <<13, 10>>

\* "HTTP/1.1 101 Switching Protocols\r\n"
StatusSwitching ==
    <<72, 84, 84, 80, 47, 49, 46, 49, 32, 49, 48, 49, 32, 83, 119, 105,
      116, 99, 104, 105, 110, 103, 32, 80, 114, 111, 116, 111, 99, 111,
      108, 115, 13, 10>>

\* "HTTP/1.1 200 OK\r\n"
StatusOK ==
    <<72, 84, 84, 80, 47, 49, 46, 49, 32, 50, 48, 48, 32, 79, 75, 13, 10>>

\* "HTTP/1.1 403 Forbidden\r\n"
StatusForbidden ==
    <<72, 84, 84, 80, 47, 49, 46, 49, 32, 52, 48, 51, 32, 70, 111, 114, 98,
      105, 100, 100, 101, 110, 13, 10>>

\* "HTTP/1.1 101 Switching Protocols\n"
StatusBareLF ==
    <<72, 84, 84, 80, 47, 49, 46, 49, 32, 49, 48, 49, 32, 83, 119, 105,
      116, 99, 104, 105, 110, 103, 32, 80, 114, 111, 116, 111, 99, 111,
      108, 115, 10>>

\* "HTTP/1.1 101 Switching"
StatusCut ==
    <<72, 84, 84, 80, 47, 49, 46, 49, 32, 49, 48, 49, 32, 83, 119, 105,
      116, 99, 104, 105, 110, 103>>

\* "Upgrade: websocket\r\n"
UpgradeLine ==
    <<85, 112, 103, 114, 97, 100, 101, 58, 32, 119, 101, 98, 115, 111, 99,
      107, 101, 116, 13, 10>>

\* "Connection: Upgrade\r\n"
ConnectionLine ==
    <<67, 111, 110, 110, 101, 99, 116, 105, 111, 110, 58, 32, 85, 112, 103,
      114, 97, 100, 101, 13, 10>>

\* "Sec-WebSocket-Accept: "
AcceptName ==
    <<83, 101, 99, 45, 87, 101, 98, 83, 111, 99, 107, 101, 116, 45, 65, 99,
      99, 101, 112, 116, 58, 32>>

\* "HSmrc0sMlYUkAGmm5OPpG2HaGWk="
OtherAccept ==
    <<72, 83, 109, 114, 99, 48, 115, 77, 108, 89, 85, 107, 65, 71, 109,
      109, 53, 79, 80, 112, 71, 50, 72, 97, 71, 87, 107, 61>>

\* "Test Message"
TestMessage ==
    <<84, 101, 115, 116, 32, 77, 101, 115, 115, 97, 103, 101>>

\* strings.Contains
Contains(s, sub) ==
    \E i \in 1..(Len(s) - Len(sub) + 1) : SubSeq(s, i, i + Len(sub) - 1) = sub

\* the place of the first byte b in s, 0 when there is none
IndexByte(s, b) ==
    IF \E i \in 1..Len(s) : s[i] = b
    THEN CHOOSE i \in 1..Len(s) : s[i] = b /\ \A j \in 1..(i - 1) : s[j] # b
    ELSE 0

RECURSIVE ReadString(_, _)
\* bufio.Reader.ReadString: reads the stream until delim is buffered and
\* returns the bytes up to and including it; at the end of the stream it
\* returns the bytes it has with the error
ReadString(r, delim) ==
    LET i == IndexByte(r.buf, delim)
    IN  IF i > 0
        THEN [data |-> Take(r.buf, i), err |-> "nil",
              rd |-> [r EXCEPT !.buf = Drop(@, i), !.used = @ + i]]
        ELSE IF r.next > Len(r.src)
        THEN [data |-> r.buf, err |-> "EOF",
              rd |-> [r EXCEPT !.buf = <<>>, !.used = @ + Len(r.buf)]]
        ELSE ReadString([r EXCEPT !.buf = @ \o r.src[r.next], !.next = @ + 1], delim)

\* the eight fmt.Fprintf calls of main, in order
RequestLines(key) ==
    << <<"GET %s HTTP/1.1\r\n", "/ws">>,
       <<"Host: %s\r\n", "localhost:8080">>,
       <<"Upgrade: websocket\r\n">>,
       <<"Connection: Upgrade\r\n">>,
       <<"Sec-WebSocket-Key: %s\r\n", key>>,
       <<"Sec-WebSocket-Version: 13\r\n">>,
       <<"Origin: http://localhost:8080\r\n">>,
       <<"\r\n">> >>

\* the keys rand.Read and base64 may give
ClientKeys == {SampleKey, OtherKey}

\* after how many of the eight lines the connection stops taking writes
WriteStops == {0, 4, 8}

NoConn == [open |-> FALSE, closed |-> FALSE, written |-> <<>>]

NoPeer == [pending |-> <<>>, open |-> FALSE, status |-> <<>>, headers |-> <<>>,
           term |-> FALSE, frame |-> <<>>]

\* what a peer may answer: a status line, header lines, the empty line or
\* not, and the bytes of frames
Statuses == {StatusSwitching, StatusOK, StatusForbidden, StatusBareLF, StatusCut, <<>>}

HeaderSets ==
    {<<UpgradeLine, ConnectionLine, AcceptName \o SampleAccept \o CRLF>>,
     <<UpgradeLine, ConnectionLine, AcceptName \o OtherAccept \o CRLF>>,
     <<UpgradeLine, ConnectionLine>>,
     <<>>,
     <<UpgradeLine, <<10>>, ConnectionLine>>}

Frames ==
    {<<129, 12>> \o TestMessage, <<129, 0>>, <<>>, <<129, 5, 72>>,
     <<130, 1, 65>>, <<129, 1, 65, 129, 1, 66>>}

\* the lines of the handshake part of an answer
HandshakeLines(st, hs, term) ==
    (IF st = <<>> THEN <<>> ELSE <<st>>) \o hs \o (IF term THEN <<CRLF>> ELSE <<>>)

\* the chunks a and then the chunks b, the last of a and the first of b
\* arriving as one
Glue(a, b) ==
    IF a = <<>> \/ b = <<>> THEN a \o b
    ELSE SubSeq(a, 1, Len(a) - 1) \o <<a[Len(a)] \o b[1]>> \o Tail(b)

\* the peer's plan: its answer and the chunks the connection carries it in
Plan(st, hs, term, fc, hc, glue) ==
    [pending |-> IF glue THEN Glue(hc, fc) ELSE hc \o fc, open |-> TRUE,
     status |-> st, headers |-> hs, term |-> term, frame |-> fc]

\* the handshake one conn.Write per line (as the tests' servers send it),
\* in one chunk, or cut in two
HandshakeChunks(ls) == {ls} \cup Splits(Flat(ls))

Plans ==
    UNION {UNION {{Plan(StatusSwitching, hs, TRUE, fc, hc, glue) :
                      hc \in HandshakeChunks(HandshakeLines(StatusSwitching, hs, TRUE)),
                      glue \in BOOLEAN} :
                    fc \in UNION {Splits(f) : f \in Frames}} : hs \in HeaderSets}
      \cup {Plan(st, <<UpgradeLine, ConnectionLine>>, term, <<<<129, 12>> \o TestMessage>>,
                 HandshakeLines(st, <<UpgradeLine, ConnectionLine>>, term), FALSE) :
                st \in Statuses, term \in BOOLEAN}

\* net.Dial, and the defer of conn.Close
Dial(ok, pl) ==
    /\ cpc = "dial"
    /\ IF ok
       THEN /\ conn' = [conn EXCEPT !.open = TRUE]
            /\ peer' = pl
            /\ cpc' = "key"
            /\ UNCHANGED fatal
       ELSE /\ fatal' = "Dial error:"
            /\ cpc' = "exit"
            /\ UNCHANGED <<conn, peer>>
    /\ rd' = NewReader(<<>>)
    /\ UNCHANGED <<secWebSocketKey, status, line>>
    /\ UNCHANGED <<rw, phase, message, sendErr, fromSend, result>>
    /\ UNCHANGED handlerVars
    /\ UNCHANGED serverVars

\* rand.Read and base64
GenerateKey(ok, k) ==
    /\ cpc = "key"
    /\ IF ok
       THEN /\ secWebSocketKey' = k
            /\ cpc' = "request"
            /\ UNCHANGED fatal
       ELSE /\ fatal' = "Key generation error:"
            /\ cpc' = "exit"
            /\ UNCHANGED secWebSocketKey
    /\ UNCHANGED <<conn, status, line, peer>>
    /\ UNCHANGED codecVars
    /\ UNCHANGED rw
    /\ UNCHANGED handlerVars
    /\ UNCHANGED serverVars

\* the eight fmt.Fprintf(conn, ...), whose errors main does not look at:
\* the first n lines reach the connection
WriteRequest(n) ==
    /\ cpc = "request"
    /\ conn' = [conn EXCEPT !.written = Take(RequestLines(secWebSocketKey), n)]
    /\ cpc' = "status"
    /\ UNCHANGED <<secWebSocketKey, status, line, fatal, peer>>
    /\ UNCHANGED codecVars
    /\ UNCHANGED rw
    /\ UNCHANGED handlerVars
    /\ UNCHANGED serverVars

\* a ReadString of main finds no whole line yet and the peer is open
LineWaits == peer.open /\ ReadString(rd, 10).err = "EOF"

\* a Read of readTextMessage finds no byte yet and the peer is open
FrameWaits == peer.open /\ readTextMessage(rd).err = "EOF"

\* "101"
SwitchingCode == <<49, 48, 49>>

\* the status test without its exit: main goes on to the header lines
ReadStatus_NoExit ==
    /\ cpc = "status"
    /\ ~LineWaits
    /\ LET r == ReadString(rd, 10)
       IN  /\ rd' = r.rd
           /\ status' = r.data
           /\ IF r.err # "nil"
              THEN fatal' = "Error reading status line:" /\ cpc' = "exit"
              ELSE IF ~Contains(r.data, SwitchingCode)
              THEN fatal' = "Did not receive 101 Switching Protocols" /\ cpc' = "headers"
              ELSE cpc' = "headers" /\ UNCHANGED fatal
    /\ UNCHANGED <<conn, secWebSocketKey, line, peer>>
    /\ UNCHANGED <<rw, phase, message, sendErr, fromSend, result>>
    /\ UNCHANGED handlerVars
    /\ UNCHANGED serverVars

\* reader.ReadString('\n') for the status line and the test for "101"
ReadStatus ==
    /\ cpc = "status"
    /\ ~LineWaits
    /\ LET r == ReadString(rd, 10)
       IN  /\ rd' = r.rd
           /\ status' = r.data
           /\ IF r.err # "nil"
              THEN fatal' = "Error reading status line:" /\ cpc' = "exit"
              ELSE IF ~Contains(r.data, SwitchingCode)
              THEN fatal' = "Did not receive 101 Switching Protocols" /\ cpc' = "exit"
              ELSE cpc' = "headers" /\ UNCHANGED fatal
    /\ UNCHANGED <<conn, secWebSocketKey, line, peer>>
    /\ UNCHANGED <<rw, phase, message, sendErr, fromSend, result>>
    /\ UNCHANGED handlerVars
    /\ UNCHANGED serverVars

\* the loop taking a line of a bare line feed as the end of the headers too
ReadHeaderLine_BareLF ==
    /\ cpc = "headers"
    /\ ~LineWaits
    /\ LET r == ReadString(rd, 10)
       IN  /\ rd' = r.rd
           /\ line' = r.data
           /\ IF r.err # "nil"
              THEN fatal' = "Error reading headers:" /\ cpc' = "exit"
              ELSE IF r.data \in {CRLF, <<10>>}
              THEN cpc' = "frame" /\ UNCHANGED fatal
              ELSE cpc' = "headers" /\ UNCHANGED fatal
    /\ UNCHANGED <<conn, secWebSocketKey, status, peer>>
    /\ UNCHANGED <<rw, phase, message, sendErr, fromSend, result>>
    /\ UNCHANGED handlerVars
    /\ UNCHANGED serverVars

\* the loop going on after a failed read instead of ending main
ReadHeaderLine_NoFatal ==
    /\ cpc = "headers"
    /\ ~LineWaits
    /\ LET r == ReadString(rd, 10)
       IN  /\ rd' = r.rd
           /\ line' = r.data
           /\ IF r.err = "nil" /\ r.data = CRLF
              THEN cpc' = "frame"
              ELSE cpc' = "headers"
    /\ UNCHANGED <<conn, secWebSocketKey, status, fatal, peer>>
    /\ UNCHANGED <<rw, phase, message, sendErr, fromSend, result>>
    /\ UNCHANGED handlerVars
    /\ UNCHANGED serverVars

\* the loop comparing the Sec-WebSocket-Accept line with the accept value
\* of the key that was sent
ReadHeaderLine_CheckAccept ==
    /\ cpc = "headers"
    /\ ~LineWaits
    /\ LET r == ReadString(rd, 10)
       IN  /\ rd' = r.rd
           /\ line' = r.data
           /\ IF r.err # "nil"
              THEN fatal' = "Error reading headers:" /\ cpc' = "exit"
              ELSE IF /\ Take(r.data, Len(AcceptName)) = AcceptName
                      /\ r.data # AcceptName \o computeAcceptKey(secWebSocketKey) \o CRLF
              THEN fatal' = "Error reading headers:" /\ cpc' = "exit"
              ELSE IF r.data = CRLF
              THEN cpc' = "frame" /\ UNCHANGED fatal
              ELSE cpc' = "headers" /\ UNCHANGED fatal
    /\ UNCHANGED <<conn, secWebSocketKey, status, peer>>
    /\ UNCHANGED <<rw, phase, message, sendErr, fromSend, result>>
    /\ UNCHANGED handlerVars
    /\ UNCHANGED serverVars

\* one turn of the loop over the header lines
ReadHeaderLine ==
    /\ cpc = "headers"
    /\ ~LineWaits
    /\ LET r == ReadString(rd, 10)
       IN  /\ rd' = r.rd
           /\ line' = r.data
           /\ IF r.err # "nil"
              THEN fatal' = "Error reading headers:" /\ cpc' = "exit"
              ELSE IF r.data = CRLF
              THEN cpc' = "frame" /\ UNCHANGED fatal
              ELSE cpc' = "headers" /\ UNCHANGED fatal
    /\ UNCHANGED <<conn, secWebSocketKey, status, peer>>
    /\ UNCHANGED <<rw, phase, message, sendErr, fromSend, result>>
    /\ UNCHANGED handlerVars
    /\ UNCHANGED serverVars

\* message, err := readTextMessage(reader)
ReadMessage ==
    /\ cpc = "frame"
    /\ ~FrameWaits
    /\ LET r == readTextMessage(rd)
       IN  /\ rd' = r.rd
           /\ result' = [text |-> r.text, err |-> r.err]
           /\ IF r.err # "nil"
              THEN fatal' = "Error reading message:" /\ cpc' = "exit"
              ELSE cpc' = "print" /\ UNCHANGED fatal
    /\ UNCHANGED <<conn, secWebSocketKey, status, line, peer>>
    /\ UNCHANGED <<rw, phase, message, sendErr, fromSend>>
    /\ UNCHANGED handlerVars
    /\ UNCHANGED serverVars

\* fmt.Printf of the message, the return of main and the deferred conn.Close()
PrintAndReturn ==
    /\ cpc = "print"
    /\ conn' = [conn EXCEPT !.closed = TRUE]
    /\ cpc' = "exit"
    /\ UNCHANGED <<secWebSocketKey, status, line, fatal, peer>>
    /\ UNCHANGED codecVars
    /\ UNCHANGED rw
    /\ UNCHANGED handlerVars
    /\ UNCHANGED serverVars

\* the next chunk of the peer's answer arrives at the connection
PeerSend ==
    /\ conn.open
    /\ cpc # "exit"
    /\ peer.open
    /\ peer.pending # <<>>
    /\ rd' = [rd EXCEPT !.src = Append(@, Head(peer.pending))]
    /\ peer' = [peer EXCEPT !.pending = Tail(@)]
    /\ UNCHANGED <<cpc, conn, secWebSocketKey, status, line, fatal>>
    /\ UNCHANGED <<rw, phase, message, sendErr, fromSend, result>>
    /\ UNCHANGED handlerVars
    /\ UNCHANGED serverVars

\* the peer closes its end, or the connection breaks
PeerClose ==
    /\ conn.open
    /\ cpc # "exit"
    /\ peer.open
    /\ peer' = [peer EXCEPT !.open = FALSE]
    /\ UNCHANGED <<cpc, conn, secWebSocketKey, status, line, fatal>>
    /\ UNCHANGED codecVars
    /\ UNCHANGED rw
    /\ UNCHANGED handlerVars
    /\ UNCHANGED serverVars

(***************************************************************************)
(* The server serving several connections at once (http.ListenAndServe):   *)
(* one wsHandler per connection, each with its own request, ResponseWriter *)
(* and writer; the steps of the handlers interleave.  The logger of        *)
(* package log is the one thing all handlers write to.                     *)
(***************************************************************************)
Conns == {"c1", "c2"}

\* a connection before its request is served
NoConnection ==
    [pc |-> "idle", req |-> NoRequest, transport |-> "none", secWebSocketAccept |-> <<>>,
     resp |-> NewResponse, hijacked |-> FALSE, connClosed |-> FALSE,
     rw |-> NewWriter(FALSE, 0)]

\* one step of wsHandler on the connection c, from its position c.pc
wsHandlerStep(c) ==
    IF c.pc = "origin"
    THEN IF c.req.origin # allowedOrigin
         THEN [c EXCEPT !.resp = httpError(@, "Origin not allowed", 403), !.pc = "done"]
         ELSE [c EXCEPT !.pc = "upgrade"]
    ELSE IF c.pc = "upgrade"
    THEN IF c.req.upgrade # "websocket"
         THEN [c EXCEPT !.resp = httpError(@, "Not a valid WebSocket handshake", 400),
                        !.pc = "done"]
         ELSE [c EXCEPT !.pc = "key"]
    ELSE IF c.pc = "key"
    THEN IF c.req.key = <<>>
         THEN [c EXCEPT !.resp = httpError(@, "Missing Sec-WebSocket-Key", 400), !.pc = "done"]
         ELSE [c EXCEPT !.pc = "accept"]
    ELSE IF c.pc = "accept"
    THEN [c EXCEPT !.secWebSocketAccept = computeAcceptKey(c.req.key), !.pc = "header"]
    ELSE IF c.pc = "header"
    THEN [c EXCEPT !.resp.header =
                      HeaderSet(HeaderSet(HeaderSet(@, "Upgrade", "websocket"),
                                          "Connection", "Upgrade"),
                                "Sec-WebSocket-Accept", c.secWebSocketAccept),
                   !.pc = "status"]
    ELSE IF c.pc = "status"
    THEN [c EXCEPT !.resp = WriteHeader(@, 101), !.pc = "hijack"]
    ELSE IF c.pc = "hijack"
    THEN IF c.transport = "none"
         THEN [c EXCEPT !.resp = httpError(@, "Hijacking not supported", 500), !.pc = "done"]
         ELSE IF c.transport = "fail"
         THEN [c EXCEPT !.resp = httpError(@, "Could not hijack connection: error", 500),
                        !.pc = "done"]
         ELSE [c EXCEPT !.hijacked = TRUE, !.pc = "send"]
    ELSE IF c.pc = "send"
    THEN [c EXCEPT !.rw = sendTextMessage(@, HelloWorld).w, !.pc = "close"]
    ELSE IF c.pc = "close"
    THEN [c EXCEPT !.connClosed = TRUE, !.pc = "done"]
    ELSE c

\* the lines that step writes to the logger
wsHandlerLog(c) ==
    IF c.pc = "origin" /\ c.req.origin # allowedOrigin
    THEN <<"Origin not allowed: ">>
    ELSE IF c.pc = "send"
    THEN IF sendTextMessage(c.rw, HelloWorld).err # "nil"
         THEN <<"Error sending message:">>
         ELSE <<"Sent:">>
    ELSE <<>>

\* the requests, transports and writers of the connections served at once
ConnRequests ==
    {[origin |-> "http://example.com", upgrade |-> "websocket", key |-> SampleKey],
     [origin |-> allowedOrigin, upgrade |-> "h2c", key |-> SampleKey],
     [origin |-> allowedOrigin, upgrade |-> "websocket", key |-> <<>>],
     [origin |-> allowedOrigin, upgrade |-> "websocket", key |-> SampleKey],
     [origin |-> allowedOrigin, upgrade |-> "websocket", key |-> OtherKey]}

\* no Hijacker, a failing Hijack, or a connection whose writes fail or not
ConnTransports ==
    {[transport |-> "none", fail |-> FALSE, partial |-> 0],
     [transport |-> "fail", fail |-> FALSE, partial |-> 0],
     [transport |-> "ok", fail |-> FALSE, partial |-> 0]}
      \cup {[transport |-> "ok", fail |-> TRUE, partial |-> n] : n \in 0..MaxPartial}

\* the server hands the request of connection id to a wsHandler of its own
ServeConn(id, q, t) ==
    /\ conns[id].pc = "idle"
    /\ conns' = [conns EXCEPT ![id] =
                   [@ EXCEPT !.req = q,
                             !.transport = t.transport,
                             !.rw = NewWriter(t.fail, t.partial),
                             !.pc = "origin"]]
    /\ UNCHANGED logged
    /\ UNCHANGED handlerVars
    /\ UNCHANGED codecVars
    /\ UNCHANGED rw
    /\ UNCHANGED clientVars

\* the handler of connection id takes its next step, every handler keeping
\* secWebSocketAccept in one package-level variable
StepConn_SharedAccept(id) ==
    /\ conns[id].pc \notin {"idle", "done"}
    /\ LET c == wsHandlerStep(conns[id])
       IN  conns' = [d \in Conns |->
                       IF d = id THEN c
                       ELSE IF conns[id].pc = "accept"
                       THEN [conns[d] EXCEPT !.secWebSocketAccept = c.secWebSocketAccept]
                       ELSE conns[d]]
    /\ logged' = logged \o wsHandlerLog(conns[id])
    /\ UNCHANGED handlerVars
    /\ UNCHANGED codecVars
    /\ UNCHANGED rw
    /\ UNCHANGED clientVars

\* the handler of connection id takes its next step
StepConn(id) ==
    /\ conns[id].pc \notin {"idle", "done"}
    /\ conns' = [conns EXCEPT ![id] = wsHandlerStep(@)]
    /\ logged' = logged \o wsHandlerLog(conns[id])
    /\ UNCHANGED handlerVars
    /\ UNCHANGED codecVars
    /\ UNCHANGED rw
    /\ UNCHANGED clientVars

(***************************************************************************)
(* The whole request wsHandler is given: besides the three headers it      *)
(* reads, the method, the path and the headers it does not look at.        *)
(***************************************************************************)
Methods == {"GET", "POST"}

Paths == {"/ws", "/chat"}

\* values of the Connection header, "" when absent
Connections == {"Upgrade", "keep-alive", ""}

\* values of the Sec-WebSocket-Version header, "" when absent
Versions == {"13", "8", ""}

\* wsHandler is called with the request q, sent with method m to path p
\* with the Connection header c and the Sec-WebSocket-Version header v
ServeRequest(q, t, m, p, c, v) ==
    /\ pc = "idle"
    /\ req' = [origin |-> q.origin, upgrade |-> q.upgrade, key |-> q.key,
               method |-> m, path |-> p, connection |-> c, version |-> v]
    /\ transport' = t.transport
    /\ rw' = NewWriter(t.fail, t.partial)
    /\ pc' = "origin"
    /\ UNCHANGED <<secWebSocketAccept, resp, hijacked, connClosed>>
    /\ UNCHANGED codecVars
    /\ UNCHANGED clientVars
    /\ UNCHANGED serverVars

Init ==
    /\ pc = "idle"
    /\ req = NoRequest
    /\ transport = "none"
    /\ secWebSocketAccept = <<>>
    /\ resp = NewResponse
    /\ hijacked = FALSE
    /\ connClosed = FALSE
    /\ rw = NewWriter(FALSE, 0)
    /\ phase = "idle"
    /\ message = <<>>
    /\ sendErr = "none"
    /\ rd = NoReader
    /\ fromSend = FALSE
    /\ result = NoResult
    /\ cpc = "dial"
    /\ conn = NoConn
    /\ secWebSocketKey = <<>>
    /\ status = <<>>
    /\ line = <<>>
    /\ fatal = "none"
    /\ peer = NoPeer
    /\ conns = [id \in Conns |-> NoConnection]
    /\ logged = <<>>

Next ==
    \/ \E o \in Origins, u \in Upgrades, k \in Keys, t \in Transports,
          f \in BOOLEAN, n \in 0..MaxPartial :
          Serve(o, u, k, t, f, n)
    \/ CheckOrigin
    \/ CheckUpgrade
    \/ CheckKey
    \/ ComputeAccept
    \/ SetHeaders
    \/ SwitchingProtocols
    \/ Hijack
    \/ SendHello
    \/ CloseConn

Spec == Init /\ [][Next]_vars

NextCodec ==
    \/ \E m \in Messages, f \in BOOLEAN, n \in 0..MaxPartial : SendTextMessage(m, f, n)
    \/ \E c \in Splits(rw.out) : Deliver(c)
    \/ \E s \in PeerStreams : \E c \in Splits(s) : Inject(c)
    \/ ReadTextMessage

SpecCodec == Init /\ [][NextCodec]_vars

NextServer ==
    \/ \E id \in Conns, q \in ConnRequests, t \in ConnTransports : ServeConn(id, q, t)
    \/ \E id \in Conns : StepConn(id)

SpecServer == Init /\ [][NextServer]_vars

NextRequest ==
    \/ \E q \in ConnRequests, t \in ConnTransports, m \in Methods, p \in Paths,
          c \in Connections, v \in Versions : ServeRequest(q, t, m, p, c, v)
    \/ CheckOrigin
    \/ CheckUpgrade
    \/ CheckKey
    \/ ComputeAccept
    \/ SetHeaders
    \/ SwitchingProtocols
    \/ Hijack
    \/ SendHello
    \/ CloseConn

SpecRequest == Init /\ [][NextRequest]_vars

\* the steps of main
MainStep ==
    \/ \E ok \in BOOLEAN, pl \in Plans : Dial(ok, pl)
    \/ \E ok \in BOOLEAN, k \in ClientKeys : GenerateKey(ok, k)
    \/ \E n \in WriteStops : WriteRequest(n)
    \/ ReadStatus
    \/ ReadHeaderLine
    \/ ReadMessage
    \/ PrintAndReturn

NextClient ==
    \/ MainStep
    \/ PeerSend
    \/ PeerClose

SpecClient == Init /\ [][NextClient]_vars

\* the plans that send the handshake one line per chunk, as the tests'
\* servers do
LivePlans ==
    {pl \in Plans : pl.pending = HandshakeLines(pl.status, pl.headers, pl.term) \o pl.frame}

\* the steps of main against such a peer
MainStepLive ==
    \/ \E ok \in BOOLEAN, pl \in LivePlans : Dial(ok, pl)
    \/ \E ok \in BOOLEAN, k \in ClientKeys : GenerateKey(ok, k)
    \/ \E n \in WriteStops : WriteRequest(n)
    \/ ReadStatus
    \/ ReadHeaderLine
    \/ ReadMessage
    \/ PrintAndReturn

NextClientLive ==
    \/ MainStepLive
    \/ PeerSend
    \/ PeerClose

\* main runs on while a step of it is possible, and the peer goes on to
\* deliver what it has to send or to close
SpecClientLive ==
    Init /\ [][NextClientLive]_vars /\ WF_vars(MainStepLive) /\ WF_vars(PeerSend \/ PeerClose)

(***************************************************************************)
(* Properties of the responder, checked under Spec.                        *)
(***************************************************************************)
OriginOk == req.origin = "http://localhost:8080"

UpgradeOk == req.upgrade = "websocket"

KeyOk == req.key # <<>>

\* 0x81, 11, "Hello World"
HelloFrame == <<129, 11>> \o HelloWorld

\* s is an initial part of t
IsPrefix(s, t) == Len(s) <= Len(t) /\ s = SubSeq(t, 1, Len(s))

\* C1: when wsHandler has returned, the response is that of the first failing
\* check in the order origin, upgrade, key: 403 "Origin not allowed" when the
\* Origin is not the allowed one, whatever the other headers; else 400 "Not a
\* valid WebSocket handshake" when Upgrade is not exactly "websocket"; else
\* 400 "Missing Sec-WebSocket-Key" when the key is empty; else status 101.
C1_FirstFailingCheck ==
    pc = "done" =>
        IF ~OriginOk
        THEN resp.status = 403 /\ resp.body = <<"Origin not allowed">>
        ELSE IF ~UpgradeOk
        THEN resp.status = 400 /\ resp.body = <<"Not a valid WebSocket handshake">>
        ELSE IF ~KeyOk
        THEN resp.status = 400 /\ resp.body = <<"Missing Sec-WebSocket-Key">>
        ELSE resp.status = 101

\* a request with the allowed origin and a key whose Upgrade differs from
\* "websocket" only in case has been answered 400
C1_Witness ==
    /\ pc = "done"
    /\ OriginOk
    /\ req.upgrade = "WebSocket"
    /\ KeyOk
    /\ resp.status = 400
    /\ resp.body = <<"Not a valid WebSocket handshake">>

\* C2: once a request is being handled whose origin, upgrade or key check
\* fails, no later step runs: the handler is at a check or has returned, the
\* accept value is not computed nor set as a header, status 101 is not
\* emitted, the connection is not taken over or closed by the handler, and
\* no frame byte is buffered or written.
C2_RejectionStopsHandler ==
    (pc # "idle" /\ (~OriginOk \/ ~UpgradeOk \/ ~KeyOk)) =>
        /\ pc \in {"origin", "upgrade", "key", "done"}
        /\ secWebSocketAccept = <<>>
        /\ "Sec-WebSocket-Accept" \notin DOMAIN resp.header
        /\ resp.status # 101
        /\ ~hijacked
        /\ ~connClosed
        /\ rw.buf = <<>>
        /\ rw.out = <<>>

\* a request that fails only the origin check, on a transport that could be
\* taken over, has been answered 403 and the handler has returned
C2_Witness ==
    /\ pc = "done"
    /\ ~OriginOk
    /\ UpgradeOk
    /\ KeyOk
    /\ transport = "ok"
    /\ resp.status = 403
    /\ rw.out = <<>>

\* the three upgrade headers are set, the accept value being that of the key
UpgradeHeaders ==
    /\ {"Upgrade", "Connection", "Sec-WebSocket-Accept"} \subseteq DOMAIN resp.header
    /\ resp.header["Upgrade"] = "websocket"
    /\ resp.header["Connection"] = "Upgrade"
    /\ resp.header["Sec-WebSocket-Accept"] = computeAcceptKey(req.key)

Accepted == pc # "idle" /\ OriginOk /\ UpgradeOk /\ KeyOk /\ transport = "ok"

\* the order of the steps: headers before the status, the status before the
\* takeover, the takeover before any frame byte, the frame before the close
StepOrder ==
    /\ (resp.status # 0 => resp.status = 101 /\ UpgradeHeaders)
    /\ (hijacked => resp.status = 101)
    /\ ((rw.buf # <<>> \/ rw.out # <<>>) => hijacked)
    /\ (connClosed => hijacked /\ pc = "done")

\* C3 as stated: for a request that passes the three checks on a transport
\* that supports takeover, the handler sets the three headers, emits 101,
\* takes the connection over, writes exactly the one unmasked text frame
\* "Hello World" and closes the connection, in this order.
C3_Original ==
    Accepted =>
        /\ StepOrder
        /\ IsPrefix(rw.out, HelloFrame)
        /\ (pc = "done" => rw.out = HelloFrame /\ rw.buf = <<>> /\ connClosed)

\* C3 as amended: the same, the frame reaching the connection whole when the
\* connection accepts the write; when the write fails, what has reached the
\* connection is an initial part of that one frame, and the connection is
\* closed all the same.
C3_UpgradeSequence ==
    Accepted =>
        /\ StepOrder
        /\ IsPrefix(rw.out, HelloFrame)
        /\ (pc = "done" =>
              /\ connClosed
              /\ (~rw.fail => rw.out = HelloFrame /\ rw.buf = <<>>))

\* the handler has returned after an accepted request whose frame reached
\* the connection whole
C3_Witness ==
    /\ Accepted
    /\ pc = "done"
    /\ req.key = SampleKey
    /\ resp.status = 101
    /\ resp.header["Sec-WebSocket-Accept"] = SampleAccept
    /\ hijacked
    /\ rw.out = HelloFrame
    /\ connClosed

\* C4 as stated: a request that passes the three checks on a ResponseWriter
\* that is not a Hijacker is answered with status 500, and no frame is written.
C4_Original ==
    (pc = "done" /\ OriginOk /\ UpgradeOk /\ KeyOk /\ transport = "none") =>
        /\ resp.status = 500
        /\ rw.buf = <<>>
        /\ rw.out = <<>>

(***************************************************************************)
(* Properties of the frame codec, checked under SpecCodec.                 *)
(***************************************************************************)
Sent == phase # "idle" /\ sendErr # "none"

\* C5 as stated: for every message of n <= 125 bytes sendTextMessage returns
\* no error and the underlying writer has received exactly 0x81, n and the
\* message, nothing being left in the buffer.
C5_Original ==
    (Sent /\ Len(message) <= 125) =>
        /\ sendErr = "nil"
        /\ rw.out = <<129, Len(message)>> \o message
        /\ rw.buf = <<>>

\* C5 as amended: for every message of n <= 125 bytes, when the underlying
\* writer reports no error, sendTextMessage returns no error and the
\* underlying writer has received exactly 0x81, n (mask bit clear) and the
\* message with no mask key, nothing being left in the buffer; when the
\* underlying writer reports an error, sendTextMessage returns that error.
C5_FrameWritten ==
    (Sent /\ Len(message) <= 125) =>
        /\ (~rw.fail =>
              /\ sendErr = "nil"
              /\ Len(rw.out) = Len(message) + 2
              /\ rw.out[1] = 129
              /\ rw.out[2] = Len(message)
              /\ rw.out[2] < 128
              /\ SubSeq(rw.out, 3, Len(rw.out)) = message
              /\ rw.buf = <<>>)
        /\ (rw.fail => sendErr = "write error")

\* a message of 125 bytes has been sent whole to a writer that accepts it
C5_Witness ==
    /\ Sent
    /\ Len(message) = 125
    /\ ~rw.fail
    /\ sendErr = "nil"
    /\ Len(rw.out) = 127

\* C6: a message of exactly 125 bytes is not refused: its frame 0x81, 125,
\* message is built and given to the writer (and received whole when the
\* writer accepts it); a message of 126 bytes or more is refused with
\* "Message too long" and no byte is buffered or written.
C6_LengthBoundary ==
    Sent =>
        /\ (Len(message) = 125 =>
              /\ sendErr # "Message too long"
              /\ rw.out \o rw.buf = <<129, 125>> \o message
              /\ (~rw.fail => sendErr = "nil" /\ rw.buf = <<>>))
        /\ (Len(message) >= 126 =>
              /\ sendErr = "Message too long"
              /\ rw.out = <<>>
              /\ rw.buf = <<>>)

\* a message of 126 bytes has been refused
C6_Witness ==
    /\ Sent
    /\ Len(message) = 126
    /\ sendErr = "Message too long"
    /\ rw.out = <<>>

\* the bytes of the reader's stream
Stream == Flat(rd.src)

\* the first Read of the stream returns a whole frame 0x81, n, p1..pn, n <= 125
WholeFrame ==
    /\ Len(rd.src) >= 1
    /\ Len(rd.src[1]) >= 2
    /\ rd.src[1][1] = 129
    /\ rd.src[1][2] <= 125
    /\ Len(rd.src[1]) >= rd.src[1][2] + 2

\* C7: when the stream delivers a whole frame 0x81, n, p1..pn with n <= 125
\* at once, readTextMessage returns p1..pn with no error after taking
\* exactly n + 2 bytes from the reader; with n = 0 it returns the empty text.
C7_DecodeWholeFrame ==
    (phase = "read" /\ WholeFrame) =>
        /\ result.err = "nil"
        /\ result.text = SubSeq(rd.src[1], 3, rd.src[1][2] + 2)
        /\ Len(result.text) = rd.src[1][2]
        /\ rd.used = rd.src[1][2] + 2

\* a frame of 125 payload bytes followed by one more byte has been decoded
C7_Witness ==
    /\ phase = "read"
    /\ WholeFrame
    /\ rd.src[1][2] = 125
    /\ Len(rd.src[1]) = 128
    /\ Len(result.text) = 125
    /\ result.err = "nil"
    /\ rd.used = 127

\* the error of the first rule the header b0, b1 breaks
HeaderError(b0, b1) ==
    IF b0 < 128 THEN "Continuation frames are not supported"
    ELSE IF b0 % 16 # 1 THEN "Only text frames are supported"
    ELSE IF b1 >= 128 THEN "Server frames should not be masked"
    ELSE "nil"

\* C8 as stated: for every frame on the stream whose header has FIN clear,
\* an opcode other than text or the mask bit set, readTextMessage returns the
\* error of the first broken rule in the order fin, opcode, mask, returns no
\* text and takes no byte after the two header bytes.
C8_Original ==
    (phase = "read" /\ Len(Stream) >= 2 /\ HeaderError(Stream[1], Stream[2]) # "nil") =>
        /\ result.err = HeaderError(Stream[1], Stream[2])
        /\ result.text = <<>>
        /\ rd.used <= 2

\* C9 as stated, on the streams whose bytes one Read returns together: for
\* every frame with FIN set, opcode text, mask bit clear and a length field
\* of 126 or 127, readTextMessage returns an error and no text, and takes no
\* byte after the two header bytes.
C9_Original ==
    (phase = "read" /\ Len(rd.src) = 1 /\ Len(Stream) >= 2
       /\ Stream[1] = 129 /\ Stream[2] \in {126, 127}) =>
        /\ result.err # "nil"
        /\ result.text = <<>>
        /\ rd.used = 2

\* C10 as stated: for every message of at most 125 bytes, the bytes that
\* sendTextMessage wrote, read by readTextMessage, give the message back
\* with no error.
C10_Original ==
    (phase = "read" /\ fromSend /\ Len(message) <= 125 /\ sendErr = "nil") =>
        /\ result.err = "nil"
        /\ result.text = message

\* the stream is a header 0x81, n with n <= 125 followed by k >= 0 bytes
TextHeader ==
    /\ Len(Stream) >= 2
    /\ Stream[1] = 129
    /\ Stream[2] <= 125

\* C11 as stated, on the streams whose bytes one Read returns together:
\* when readTextMessage returns a text without error, the text is exactly
\* the payloadLength bytes that follow the header on the stream; when the
\* stream ends before payloadLength payload bytes have been delivered,
\* readTextMessage returns an error and no text.
C11_Original ==
    (phase = "read" /\ Len(rd.src) = 1 /\ TextHeader) =>
        /\ (result.err = "nil" =>
              /\ Len(Stream) >= Stream[2] + 2
              /\ result.text = SubSeq(Stream, 3, Stream[2] + 2))
        /\ (Len(Stream) < Stream[2] + 2 =>
              /\ result.err # "nil"
              /\ result.text = <<>>)

\* the stream is one whole frame 0x81, n, p1..pn with n <= 125
WellFormed == TextHeader /\ Len(Stream) = Stream[2] + 2

\* C12 as stated: for every way the transport splits a well-formed frame
\* into chunks, readTextMessage returns what it returns when the whole frame
\* arrives in one chunk: the payload, with no error, after taking all n + 2
\* bytes.
C12_Original ==
    (phase = "read" /\ WellFormed) =>
        /\ result.err = "nil"
        /\ result.text = SubSeq(Stream, 3, Len(Stream))
        /\ rd.used = Len(Stream)

(***************************************************************************)
(* Properties of the initiator, checked under SpecClient.                  *)
(***************************************************************************)
\* main has read a whole status line
StatusRead == Len(status) > 0 /\ status[Len(status)] = 10

\* the status line main has read contains "101"
StatusAccepted == StatusRead /\ Contains(status, SwitchingCode)

\* the bytes of the peer's answer up to and including the empty line
HandshakeBytes == Flat(HandshakeLines(peer.status, peer.headers, TRUE))

\* C13: once main has generated its key and written its request and has
\* read a status line, if that line does not contain "101" main has ended
\* with "Did not receive 101 Switching Protocols", having taken the bytes of
\* the status line only: no header line is read and the frame decoder is not
\* called; a line that contains "101" is never refused with that message.
C13_StatusRejected ==
    /\ (StatusRead => secWebSocketKey # <<>>)
    /\ ((StatusRead /\ ~Contains(status, SwitchingCode)) =>
          /\ cpc = "exit"
          /\ fatal = "Did not receive 101 Switching Protocols"
          /\ line = <<>>
          /\ result = NoResult
          /\ rd.used = Len(status))
    /\ (StatusAccepted => fatal # "Did not receive 101 Switching Protocols")

\* the answer "HTTP/1.1 200 OK" has been refused while more of the peer's
\* bytes had arrived
C13_Witness ==
    /\ status = StatusOK
    /\ cpc = "exit"
    /\ fatal = "Did not receive 101 Switching Protocols"
    /\ Len(rd.src) >= 2
    /\ rd.used = Len(StatusOK)

\* C14: after a status line containing "101", main reads header lines and
\* drops them until a line equal to "\r\n": it calls the frame decoder only
\* when the last line read is "\r\n", having taken exactly the bytes up to
\* and including that line; when the stream ends before such a line, main
\* ends with "Error reading headers:" and the frame decoder is never called.
C14_HeaderTerminator ==
    /\ ((cpc \in {"frame", "print"} \/ result # NoResult) =>
          /\ StatusAccepted
          /\ line = CRLF
          /\ peer.term)
    /\ (cpc = "frame" => rd.used = Len(HandshakeBytes))
    /\ ((cpc = "exit" /\ StatusAccepted /\ line # CRLF) =>
          /\ fatal = "Error reading headers:"
          /\ ~peer.open
          /\ result = NoResult)

\* after "101" and two header lines the stream has ended with no empty line
C14_Witness ==
    /\ cpc = "exit"
    /\ status = StatusSwitching
    /\ ~peer.term
    /\ line # <<>>
    /\ fatal = "Error reading headers:"
    /\ result = NoResult

\* C15 as stated: readTextMessage is called only after the whole request
\* has been written, a status line containing "101" has been read and the
\* empty line has been seen; after it main reads nothing more (one frame,
\* never a second, never a handshake line again) and a run that ends without
\* log.Fatal has the decoded text of that frame.
C15_Original ==
    /\ (result # NoResult =>
          /\ conn.written = RequestLines(secWebSocketKey)
          /\ StatusAccepted
          /\ line = CRLF
          /\ cpc \in {"print", "exit"}
          /\ rd.used <= Len(HandshakeBytes) + 2 + Len(result.text))
    /\ ((cpc = "exit" /\ fatal = "none") => result # NoResult /\ result.err = "nil")

\* C16 as stated: on both roles the stream is closed on every exit path once
\* it has been opened (initiator) or taken over (responder): when main has
\* ended after a successful Dial, conn.Close() has run; when wsHandler has
\* returned after a successful Hijack, conn.Close() has run.
C16_Original ==
    /\ ((cpc = "exit" /\ conn.open) => conn.closed)
    /\ ((pc = "done" /\ hijacked) => connClosed)

\* main has ended
Terminal == cpc = "exit"

\* C19: when main's steps are taken while possible and the peer goes on to
\* deliver its bytes or to close, main always ends, with the decoded text or
\* with a log.Fatal, and the loop over the header lines is always left.
C19_Terminates ==
    /\ <>Terminal
    /\ ((cpc = "headers") ~> (cpc \in {"frame", "exit"}))

\* main waits in the loop over the header lines: no whole line has arrived,
\* the peer has no more to send and has not closed
C19_Witness ==
    /\ cpc = "headers"
    /\ LineWaits
    /\ peer.pending = <<>>
    /\ peer.headers # <<>>
    /\ ~ENABLED MainStepLive

\* the chunks of the peer's frame bytes that have arrived
FrameArrived ==
    LET k == Len(peer.frame) - Len(peer.pending)
    IN  IF k <= 0 THEN <<>> ELSE SubSeq(peer.frame, 1, k)

\* the peer's answer has a status line with "101" and the empty line, and
\* all of it up to the empty line has arrived
AnswerArrived ==
    /\ conn.open
    /\ secWebSocketKey # <<>>
    /\ Contains(peer.status, SwitchingCode)
    /\ peer.status[Len(peer.status)] = 10
    /\ peer.term
    /\ Len(Flat(rd.src)) >= Len(HandshakeBytes)

\* C20: when main has ended after an answer whose status line contains
\* "101" and whose empty line has arrived, its outcome is what decoding the
\* frame bytes alone gives, whatever the header lines are (a right, a wrong
\* or no Sec-WebSocket-Accept for the key sent, Upgrade and Connection or
\* none): the same text or error, the same log.Fatal or none.
C20_HeadersIgnored ==
    (cpc = "exit" /\ AnswerArrived) =>
        LET d == readTextMessage(NewReader(FrameArrived))
        IN  /\ result = [text |-> d.text, err |-> d.err]
            /\ fatal = (IF d.err = "nil" THEN "none" ELSE "Error reading message:")
            /\ line = CRLF

\* main has sent the sample key, the answer carried the accept value of
\* another key, and main has decoded the frame "Test Message"
C20_Witness ==
    /\ cpc = "exit"
    /\ AnswerArrived
    /\ secWebSocketKey = SampleKey
    /\ Len(peer.headers) = 3
    /\ peer.headers[3] = AcceptName \o OtherAccept \o CRLF
    /\ fatal = "none"
    /\ result = [text |-> TestMessage, err |-> "nil"]

(***************************************************************************)
(* The accept value, checked under Spec.                                   *)
(***************************************************************************)
\* base64(SHA-1(k ++ "258EAFA5-E914-47DA-95CA-C5AB0DC85B11")) for the keys
\* of the model, as computed outside the model
KnownAccept(k) ==
    IF k = SampleKey THEN SampleAccept
    ELSE IF k = OtherKey THEN OtherAccept
    ELSE <<>>

\* C18: the accept value wsHandler has computed for the key k is the base64
\* text of the SHA-1 digest of k followed by the 36-byte constant, 28
\* characters, whatever the rest of the request, the transport and the
\* writer are (it depends on k alone); for "dGhlIHNhbXBsZSBub25jZQ==" it is
\* "s3pPLMBiTxaQ9kYGzzhZRbK+xOo=".
C18_AcceptKey ==
    /\ Len(magicString) = 36
    /\ (secWebSocketAccept # <<>> =>
          /\ secWebSocketAccept = KnownAccept(req.key)
          /\ Len(secWebSocketAccept) = 28)
    /\ ((pc \in {"header", "status", "hijack", "send", "close"}) =>
          secWebSocketAccept # <<>>)
    /\ ((secWebSocketAccept # <<>> /\ req.key = SampleKey) =>
          secWebSocketAccept = SampleAccept)

\* the accept value of the second key has been computed and sent as the
\* Sec-WebSocket-Accept header
C18_Witness ==
    /\ pc = "done"
    /\ req.key = OtherKey
    /\ secWebSocketAccept = OtherAccept
    /\ "Sec-WebSocket-Accept" \in DOMAIN resp.header
    /\ resp.header["Sec-WebSocket-Accept"] = OtherAccept

(***************************************************************************)
(* Properties of the server serving several connections, checked under     *)
(* SpecServer.                                                             *)
(***************************************************************************)
\* what a connection's peer gets: status, headers, body, frame bytes, and
\* whether the connection was taken over and closed
Outcome(c) ==
    [status |-> c.resp.status, header |-> c.resp.header, body |-> c.resp.body,
     out |-> c.rw.out, hijacked |-> c.hijacked, connClosed |-> c.connClosed]

\* the headers http.Error sets
ErrorHeaders(h) ==
    HeaderSet(HeaderSet(h, "Content-Type", "text/plain; charset=utf-8"),
              "X-Content-Type-Options", "nosniff")

\* the outcome of a request refused by a check
Refused(code, msg) ==
    [status |-> code, header |-> ErrorHeaders(NoHeader), body |-> <<msg>>,
     out |-> <<>>, hijacked |-> FALSE, connClosed |-> FALSE]

\* the outcome wsHandler gives the request, transport and writer of c when
\* it is the only connection served
AloneOutcome(c) ==
    IF c.req.origin # "http://localhost:8080"
    THEN Refused(403, "Origin not allowed")
    ELSE IF c.req.upgrade # "websocket"
    THEN Refused(400, "Not a valid WebSocket handshake")
    ELSE IF c.req.key = <<>>
    THEN Refused(400, "Missing Sec-WebSocket-Key")
    ELSE
    LET h == HeaderSet(HeaderSet(HeaderSet(NoHeader, "Upgrade", "websocket"),
                                 "Connection", "Upgrade"),
                       "Sec-WebSocket-Accept", KnownAccept(c.req.key))
    IN  IF c.transport = "none"
        THEN [status |-> 101, header |-> ErrorHeaders(h),
              body |-> <<"Hijacking not supported">>,
              out |-> <<>>, hijacked |-> FALSE, connClosed |-> FALSE]
        ELSE IF c.transport = "fail"
        THEN [status |-> 101, header |-> ErrorHeaders(h),
              body |-> <<"Could not hijack connection: error">>,
              out |-> <<>>, hijacked |-> FALSE, connClosed |-> FALSE]
        ELSE [status |-> 101, header |-> h, body |-> <<>>,
              out |-> IF c.rw.fail THEN Take(HelloFrame, Min(c.rw.partial, Len(HelloFrame)))
                      ELSE HelloFrame,
              hijacked |-> TRUE, connClosed |-> TRUE]

\* C17: under every interleaving of the steps of the handlers of several
\* connections, each connection whose handler has returned has the outcome
\* (status, headers, body, frame bytes written, taken over and closed or
\* not) that its own request, transport and writer give when it is served
\* alone, whatever the other connections are doing or have suffered.
C17_Independent ==
    \A id \in Conns :
        conns[id].pc = "done" => Outcome(conns[id]) = AloneOutcome(conns[id])

\* two connections have been served at once: one with the sample key whose
\* frame was written whole, one with another key whose write failed
C17_Witness ==
    /\ conns["c1"].pc = "done"
    /\ conns["c2"].pc = "done"
    /\ conns["c1"].req.key = SampleKey
    /\ conns["c1"].rw.out = HelloFrame
    /\ conns["c1"].resp.header["Sec-WebSocket-Accept"] = SampleAccept
    /\ conns["c2"].req.key = OtherKey
    /\ conns["c2"].rw.fail
    /\ conns["c2"].rw.out # HelloFrame
    /\ conns["c2"].resp.header["Sec-WebSocket-Accept"] = OtherAccept
    /\ logged = <<"Error sending message:", "Sent:">>

(***************************************************************************)
(* Properties of the responder given whole requests, checked under         *)
(* SpecRequest.                                                            *)
(***************************************************************************)
\* the connection wsHandler is serving
Served ==
    [pc |-> pc, req |-> req, transport |-> transport,
     secWebSocketAccept |-> secWebSocketAccept, resp |-> resp,
     hijacked |-> hijacked, connClosed |-> connClosed, rw |-> rw]

\* C21: when wsHandler has returned, the status, the response headers, the
\* body and the frame bytes written are those that the Origin, Upgrade and
\* Sec-WebSocket-Key values give with the transport the request came on,
\* whatever the method, the path, the Connection header and the
\* Sec-WebSocket-Version header (13, another, absent) of the request are;
\* and none of these is changed by the handler.
C21_ThreeInputs ==
    /\ (pc = "done" =>
          /\ Outcome(Served) = AloneOutcome(Served)
          /\ req.method \in Methods
          /\ req.path \in Paths
          /\ req.connection \in Connections
          /\ req.version \in Versions)
    /\ (pc \in {"header", "status", "hijack", "send", "close"} =>
          secWebSocketAccept = KnownAccept(req.key))

\* a POST to another path with Connection: keep-alive and no
\* Sec-WebSocket-Version has been answered 101 and sent the frame
C21_Witness ==
    /\ pc = "done"
    /\ req.method = "POST"
    /\ req.path = "/chat"
    /\ req.connection = "keep-alive"
    /\ req.version = ""
    /\ req.key = SampleKey
    /\ resp.status = 101
    /\ resp.header["Sec-WebSocket-Accept"] = SampleAccept
    /\ rw.out = HelloFrame
====
